---- MODULE Spec2Model ----
(***************************************************************************)
(* Roomify model converter (convert-models.js, carried in                  *)
(* src/3d_room/ar_view/README.md): convertModels, convertThreeJsJsonToGltf *)
(* and createGlb, modelled as a state machine, and the AR server of the     *)
(* same file: the handlers of /upload-model, /save-design, /current-design *)
(* and /cleanup over the models directory and currentDesign.               *)
(*                                                                         *)
(* Numbers.  Coordinates, normals and UVs are integers.  Colour channels   *)
(* are integers in hundredths (95 stands for 0.95).  A JavaScript value    *)
(* that may be undefined, NaN or +-Infinity is a record [k, v].            *)
(* File names are sequences of one-character strings.                      *)
(***************************************************************************)
EXTENDS Integers, Sequences, FiniteSets, TLC

\* ------------------------------------------------------------------ bounds
MaxFaces == 2
MaxTrunc == 2
MaxFiles == 2
MaxRuns == 3
MaxModels == 12
MaxRequests == 2
MaxTicks == 1

\* ------------------------------------------------------- JavaScript values
Num(n) == [k |-> "num", v |-> n]
NaN == [k |-> "NaN", v |-> 0]
Undefined == [k |-> "undefined", v |-> 0]
Infinity == [k |-> "inf", v |-> 0]
NegInfinity == [k |-> "ninf", v |-> 0]

IsNum(x) == x.k = "num"

\* a * b on JavaScript values: undefined and NaN operands give NaN
Mul(a, b) == IF IsNum(a) /\ IsNum(b) THEN Num(a.v * b.v) ELSE NaN

\* a + n
Add(a, n) == IF IsNum(a) THEN Num(a.v + n) ELSE NaN

\* arr[idx] for a JavaScript array arr (1-based here) and a 0-based index value
At(arr, idx) ==
    IF IsNum(idx) /\ idx.v >= 0 /\ idx.v < Len(arr) THEN Num(arr[idx.v + 1])
    ELSE Undefined

\* x || 0
OrZero(x) == IF IsNum(x) /\ x.v # 0 THEN x.v ELSE 0

\* Math.min / Math.max
MathMin(a, b) ==
    IF a.k = "NaN" \/ b.k = "NaN" \/ a.k = "undefined" \/ b.k = "undefined" THEN NaN
    ELSE IF a.k = "ninf" \/ b.k = "ninf" THEN NegInfinity
    ELSE IF a.k = "inf" THEN b
    ELSE IF b.k = "inf" THEN a
    ELSE IF a.v <= b.v THEN a ELSE b

MathMax(a, b) ==
    IF a.k = "NaN" \/ b.k = "NaN" \/ a.k = "undefined" \/ b.k = "undefined" THEN NaN
    ELSE IF a.k = "inf" \/ b.k = "inf" THEN Infinity
    ELSE IF a.k = "ninf" THEN b
    ELSE IF b.k = "ninf" THEN a
    ELSE IF a.v >= b.v THEN a ELSE b

Abs(n) == IF n < 0 THEN -n ELSE n

\* ------------------------------------------------------------ typed arrays
TwoPow24 == 16777216
TwoPow16 == 65536

RECURSIVE Ulp(_, _)
\* spacing of the 32-bit floats around the integer magnitude m (m >= 2^24)
Ulp(m, u) == IF m < TwoPow24 * u THEN u ELSE Ulp(m, 2 * u)

\* the 32-bit float nearest to the integer n, ties to even
FroundInt(n) ==
    IF Abs(n) <= TwoPow24 THEN n
    ELSE LET m == Abs(n)
             u == Ulp(m, 1)
             q == m \div u
             r == m % u
             up == IF 2 * r > u THEN TRUE
                   ELSE IF 2 * r < u THEN FALSE
                   ELSE q % 2 = 1
             res == IF up THEN (q + 1) * u ELSE q * u
         IN IF n < 0 THEN -res ELSE res

\* an element stored into a Float32Array
Fround(x) == IF IsNum(x) THEN Num(FroundInt(x.v)) ELSE NaN

BytesPerElement(type) ==
    CASE type = "Float32Array" -> 4
      [] type = "Uint16Array" -> 2
      [] type = "Uint32Array" -> 4

\* new Float32Array(list) for a list of JavaScript values
Float32Array(list) ==
    [type |-> "Float32Array", elems |-> [j \in 1..Len(list) |-> Fround(list[j])]]

\* new Float32Array(list) for a list of plain small numbers
Float32ArrayOfInts(list) ==
    [type |-> "Float32Array", elems |-> [j \in 1..Len(list) |-> Num(FroundInt(list[j]))]]

Uint16Array(list) ==
    [type |-> "Uint16Array", elems |-> [j \in 1..Len(list) |-> list[j] % TwoPow16]]

Uint32Array(list) ==
    [type |-> "Uint32Array", elems |-> list]

ByteLength(ta) == Len(ta.elems) * BytesPerElement(ta.type)

\* ------------------------------------------------------------------ strings
RECURSIVE IndexFrom(_, _, _)
\* first position p >= from at which pat occurs in s, 0 when there is none
IndexFrom(s, pat, from) ==
    IF from + Len(pat) - 1 > Len(s) THEN 0
    ELSE IF SubSeq(s, from, from + Len(pat) - 1) = pat THEN from
    ELSE IndexFrom(s, pat, from + 1)

\* String.prototype.includes
Includes(s, pat) == IndexFrom(s, pat, 1) # 0

\* String.prototype.endsWith
EndsWith(s, suf) ==
    Len(s) >= Len(suf) /\ SubSeq(s, Len(s) - Len(suf) + 1, Len(s)) = suf

\* String.prototype.replace with a string pattern: the first occurrence only
Replace(s, pat, rep) ==
    LET p == IndexFrom(s, pat, 1)
    IN IF p = 0 THEN s
       ELSE SubSeq(s, 1, p - 1) \o rep \o SubSeq(s, p + Len(pat), Len(s))

\* toLowerCase on one character of an ASCII name: every upper-case letter
\* becomes its lower-case letter, every other character stays
LowerChar(c) ==
    CASE c = "A" -> "a" [] c = "B" -> "b" [] c = "C" -> "c" [] c = "D" -> "d"
      [] c = "E" -> "e" [] c = "F" -> "f" [] c = "G" -> "g" [] c = "H" -> "h"
      [] c = "I" -> "i" [] c = "J" -> "j" [] c = "K" -> "k" [] c = "L" -> "l"
      [] c = "M" -> "m" [] c = "N" -> "n" [] c = "O" -> "o" [] c = "P" -> "p"
      [] c = "Q" -> "q" [] c = "R" -> "r" [] c = "S" -> "s" [] c = "T" -> "t"
      [] c = "U" -> "u" [] c = "V" -> "v" [] c = "W" -> "w" [] c = "X" -> "x"
      [] c = "Y" -> "y" [] c = "Z" -> "z"
      [] OTHER -> c

\* String.prototype.toLowerCase
ToLowerCase(s) == [j \in 1..Len(s) |-> LowerChar(s[j])]

DotJs == <<".", "j", "s">>
DotGlb == <<".", "g", "l", "b">>

\* ------------------------------------------------- face stream (one record)
\* (faceType & bit) !== 0 for a power of two bit
Bit(faceType, bit) == (faceType \div bit) % 2 = 1

\* faces[i] for the 0-based read cursor i: undefined past the end
FaceAt(faces, i) == At(faces, Num(i))

B2N(b) == IF b THEN 1 ELSE 0

\* [faces[from], ..., faces[from + n - 1]], as the loops with faces[i++] read them
ReadRun(faces, from, n) == [v \in 1..n |-> FaceAt(faces, from + v - 1)]

\* DecodeRecord without the skip of the face colour
DecodeRecordNoColorSkip(faces, i) ==
    LET faceType == faces[i + 1]
        isQuad == Bit(faceType, 1)
        hasMaterial == Bit(faceType, 2)
        hasFaceUv == Bit(faceType, 4)
        hasFaceVertexUv == Bit(faceType, 8)
        hasFaceNormal == Bit(faceType, 16)
        hasFaceVertexNormal == Bit(faceType, 32)
        hasFaceVertexColor == Bit(faceType, 128)
        numVertices == IF isQuad THEN 4 ELSE 3
        i1 == i + 1
        i2 == i1 + numVertices
        i3 == i2 + B2N(hasMaterial)
        i4 == i3 + B2N(hasFaceUv)
        i5 == IF hasFaceVertexUv THEN i4 + numVertices ELSE i4
        i6 == i5 + B2N(hasFaceNormal)
        i7 == IF hasFaceVertexNormal THEN i6 + numVertices ELSE i6
        i9 == IF hasFaceVertexColor THEN i7 + numVertices ELSE i7
    IN [faceType |-> faceType,
        isQuad |-> isQuad,
        numVertices |-> numVertices,
        hasFaceVertexUv |-> hasFaceVertexUv,
        hasFaceVertexNormal |-> hasFaceVertexNormal,
        vertexIndices |-> ReadRun(faces, i1, numVertices),
        faceUvIndices |-> IF hasFaceVertexUv THEN ReadRun(faces, i4, numVertices) ELSE <<>>,
        faceNormalIndices |-> IF hasFaceVertexNormal THEN ReadRun(faces, i6, numVertices) ELSE <<>>,
        next |-> i9]

\* One iteration of the while loop up to the end of the skips: the flags, the
\* index lists read and the cursor after the record.  i is the cursor on entry
\* (0-based, i < faces.length).
DecodeRecord(faces, i) ==
    LET faceType == faces[i + 1]
        isQuad == Bit(faceType, 1)
        hasMaterial == Bit(faceType, 2)
        hasFaceUv == Bit(faceType, 4)
        hasFaceVertexUv == Bit(faceType, 8)
        hasFaceNormal == Bit(faceType, 16)
        hasFaceVertexNormal == Bit(faceType, 32)
        hasFaceColor == Bit(faceType, 64)
        hasFaceVertexColor == Bit(faceType, 128)
        numVertices == IF isQuad THEN 4 ELSE 3
        i1 == i + 1
        i2 == i1 + numVertices
        i3 == i2 + B2N(hasMaterial)
        i4 == i3 + B2N(hasFaceUv)
        i5 == IF hasFaceVertexUv THEN i4 + numVertices ELSE i4
        i6 == i5 + B2N(hasFaceNormal)
        i7 == IF hasFaceVertexNormal THEN i6 + numVertices ELSE i6
        i8 == i7 + B2N(hasFaceColor)
        i9 == IF hasFaceVertexColor THEN i8 + numVertices ELSE i8
    IN [faceType |-> faceType,
        isQuad |-> isQuad,
        numVertices |-> numVertices,
        hasFaceVertexUv |-> hasFaceVertexUv,
        hasFaceVertexNormal |-> hasFaceVertexNormal,
        vertexIndices |-> ReadRun(faces, i1, numVertices),
        faceUvIndices |-> IF hasFaceVertexUv THEN ReadRun(faces, i4, numVertices) ELSE <<>>,
        faceNormalIndices |-> IF hasFaceVertexNormal THEN ReadRun(faces, i6, numVertices) ELSE <<>>,
        next |-> i9]

\* the three scaled coordinates pushed for one corner
CornerPosition(vertices, scale, vertexIdx) ==
    LET vIdx == Mul(vertexIdx, Num(3))
    IN << Mul(At(vertices, vIdx), Num(scale)),
          Mul(At(vertices, Add(vIdx, 1)), Num(scale)),
          Mul(At(vertices, Add(vIdx, 2)), Num(scale)) >>

\* CornerNormal with the default normal along z
CornerNormalZ(normals, rec, v) ==
    IF rec.hasFaceVertexNormal /\ rec.faceNormalIndices[v] # Undefined
    THEN LET nIdx == Mul(rec.faceNormalIndices[v], Num(3))
         IN << OrZero(At(normals, nIdx)),
               OrZero(At(normals, Add(nIdx, 1))),
               OrZero(At(normals, Add(nIdx, 2))) >>
    ELSE <<0, 0, 1>>

\* the normal pushed for corner v (1-based) of record rec
CornerNormal(normals, rec, v) ==
    IF rec.hasFaceVertexNormal /\ rec.faceNormalIndices[v] # Undefined
    THEN LET nIdx == Mul(rec.faceNormalIndices[v], Num(3))
         IN << OrZero(At(normals, nIdx)),
               OrZero(At(normals, Add(nIdx, 1))),
               OrZero(At(normals, Add(nIdx, 2))) >>
    ELSE <<0, 1, 0>>

\* CornerUv without the else branch: a corner without UV data pushes nothing
CornerUvNoDefault(uvs, rec, v) ==
    IF rec.hasFaceVertexUv /\ rec.faceUvIndices[v] # Undefined
    THEN LET uIdx == Mul(rec.faceUvIndices[v], Num(2))
         IN << OrZero(At(uvs, uIdx)), OrZero(At(uvs, Add(uIdx, 1))) >>
    ELSE <<>>

\* the UV pushed for corner v (1-based) of record rec
CornerUv(uvs, rec, v) ==
    IF rec.hasFaceVertexUv /\ rec.faceUvIndices[v] # Undefined
    THEN LET uIdx == Mul(rec.faceUvIndices[v], Num(2))
         IN << OrZero(At(uvs, uIdx)), OrZero(At(uvs, Add(uIdx, 1))) >>
    ELSE <<0, 0>>

RECURSIVE FlatMap(_, _, _)
\* f[1] \o f[2] \o ... \o f[n]
FlatMap(f, from, n) == IF from > n THEN <<>> ELSE f[from] \o FlatMap(f, from + 1, n)

\* TriangulateFace with the quad split as a strip, (0,1,2) and (1,2,3)
TriangulateFaceStrip(isQuad, fvi) ==
    IF isQuad
    THEN <<fvi[1], fvi[2], fvi[3]>> \o <<fvi[2], fvi[3], fvi[4]>>
    ELSE <<fvi[1], fvi[2], fvi[3]>>

\* TriangulateFace with the winding of a triangle reversed
TriangulateFaceReversed(isQuad, fvi) ==
    IF isQuad
    THEN <<fvi[1], fvi[2], fvi[3]>> \o <<fvi[1], fvi[3], fvi[4]>>
    ELSE <<fvi[1], fvi[3], fvi[2]>>

\* the indices pushed for a face whose corners received the output indices fvi
TriangulateFace(isQuad, fvi) ==
    IF isQuad
    THEN <<fvi[1], fvi[2], fvi[3]>> \o <<fvi[1], fvi[3], fvi[4]>>
    ELSE <<fvi[1], fvi[2], fvi[3]>>

\* ------------------------------------------------------------------ colours
DefaultColor == <<60, 50, 40, 100>>

colorMap ==
    << [key |-> <<"w","h","i","t","e">>, color |-> <<95, 95, 95, 100>>],
       [key |-> <<"g","r","a","y">>, color |-> <<60, 60, 60, 100>>],
       [key |-> <<"g","r","e","y">>, color |-> <<60, 60, 60, 100>>],
       [key |-> <<"b","l","u","e">>, color |-> <<20, 40, 70, 100>>],
       [key |-> <<"o","r","a","n","g","e">>, color |-> <<90, 50, 20, 100>>],
       [key |-> <<"g","r","e","e","n">>, color |-> <<30, 60, 30, 100>>],
       [key |-> <<"b","r","o","w","n">>, color |-> <<55, 35, 20, 100>>],
       [key |-> <<"w","a","l","n","u","t">>, color |-> <<40, 25, 15, 100>>],
       [key |-> <<"o","a","k">>, color |-> <<70, 55, 35, 100>>],
       [key |-> <<"w","h","i","t","e","o","a","k">>, color |-> <<80, 70, 50, 100>>],
       [key |-> <<"s","m","o","k","e">>, color |-> <<40, 40, 45, 100>>],
       [key |-> <<"b","l","a","c","k">>, color |-> <<15, 15, 15, 100>> ] >>

RECURSIVE KeywordScan(_, _, _)
\* the for-of over Object.entries(colorMap) from entry j on: the colour of the
\* first key the name includes, else the colour held so far
KeywordScan(lowerName, j, held) ==
    IF j > Len(colorMap) THEN held
    ELSE IF Includes(lowerName, colorMap[j].key) THEN colorMap[j].color
    ELSE KeywordScan(lowerName, j + 1, held)

\* c[0] > 0.9 && c[1] > 0.9 && c[2] > 0.9
NearWhite(c) == c[1] > 90 /\ c[2] > 90 /\ c[3] > 90

\* Math.abs(a - b) < 0.05 on two channels given in hundredths. The channels
\* are doubles and so is their difference: for channels that differ by 0.05
\* the subtraction rounds either to 0.05 or just below it (0.35 - 0.3 is
\* 0.04999999999999999); roundsBelow holds the lower channels, in hundredths,
\* whose difference rounds below 0.05.
WithinTolerance(a, b) ==
    LET roundsBelow ==
            { 1, 4, 7, 10, 13, 14, 16, 17, 19, 20 }
            \cup (24..28) \cup (30..34) \cup (36..40) \cup (42..46)
            \cup (52..56) \cup (64..68) \cup (77..81) \cup (89..93)
    IN \/ Abs(a - b) < 5
       \/ Abs(a - b) = 5 /\ (IF a < b THEN a ELSE b) \in roundsBelow

\* Math.abs(c[0] - c[1]) < 0.05 && Math.abs(c[1] - c[2]) < 0.05
NearGray(c) == WithinTolerance(c[1], c[2]) /\ WithinTolerance(c[2], c[3])

RECURSIVE MaterialScan(_, _, _)
\* the for-of over materials from entry j on. A null entry makes mat.colorDiffuse
\* throw a TypeError.
MaterialScan(materials, j, held) ==
    IF j > Len(materials) THEN [threw |-> FALSE, color |-> held]
    ELSE LET mat == materials[j]
         IN IF mat.kind = "null" THEN [threw |-> TRUE, color |-> held]
            ELSE IF mat.kind = "color" /\ ~NearWhite(mat.c) /\ ~NearGray(mat.c)
                 THEN [threw |-> FALSE, color |-> <<mat.c[1], mat.c[2], mat.c[3], 100>>]
            ELSE MaterialScan(materials, j + 1, held)

\* ResolveBaseColor with the materials consulted only when no keyword matched
ResolveBaseColorNameFirst(fileName, materials) ==
    LET lowerName == ToLowerCase(fileName)
        noMatch == <<0, 0, 0, 0>>
        byName == KeywordScan(lowerName, 1, noMatch)
    IN IF byName # noMatch THEN [threw |-> FALSE, color |-> byName]
       ELSE IF Len(materials) > 0 THEN MaterialScan(materials, 1, DefaultColor)
       ELSE [threw |-> FALSE, color |-> DefaultColor]

\* lines 583-624: the base colour of a file
ResolveBaseColor(fileName, materials) ==
    LET lowerName == ToLowerCase(fileName)
        byName == KeywordScan(lowerName, 1, DefaultColor)
    IN IF Len(materials) > 0 THEN MaterialScan(materials, 1, byName)
       ELSE [threw |-> FALSE, color |-> byName]

\* ------------------------------------------------------------- index buffer
IndexLimit == 65536

\* IndexArrayType with 16-bit indices whatever the size
IndexArrayTypeAlways16(numCorners, numIndices) == "Uint16Array"

\* indices.length < 65536 ? new Uint16Array(indices) : new Uint32Array(indices)
IndexArrayType(numCorners, numIndices) ==
    IF numIndices < IndexLimit THEN "Uint16Array" ELSE "Uint32Array"

IndexBuffer(positions, indices) ==
    IF IndexArrayType(Len(positions) \div 3, Len(indices)) = "Uint16Array"
    THEN Uint16Array(indices)
    ELSE Uint32Array(indices)

\* data.indices instanceof Uint16Array ? 5123 : 5125
ComponentType(type) == IF type = "Uint16Array" THEN 5123 ELSE 5125

\* ------------------------------------------------------------- bounding box
\* let minX = Infinity, ...; let maxX = -Infinity, ...
InitialBounds ==
    [min |-> <<Infinity, Infinity, Infinity>>,
     max |-> <<NegInfinity, NegInfinity, NegInfinity>>]

\* one iteration of the bounding-box loop, at element j (0-based) of positions
BoundsIteration(b, positions, j) ==
    [min |-> << MathMin(b.min[1], positions[j + 1]),
                MathMin(b.min[2], positions[j + 2]),
                MathMin(b.min[3], positions[j + 3]) >>,
     max |-> << MathMax(b.max[1], positions[j + 1]),
                MathMax(b.max[2], positions[j + 2]),
                MathMax(b.max[3], positions[j + 3]) >>]

\* ------------------------------------------------- JSON.stringify, by length
RECURSIVE Digits(_)
Digits(n) == IF n < 10 THEN 1 ELSE 1 + Digits(n \div 10)

\* length of the decimal text of the integer n
DecLen(n) == IF n < 0 THEN 1 + Digits(-n) ELSE Digits(n)

\* length of the JSON text of a number value: NaN and +-Infinity print as null
JNumLen(x) == IF IsNum(x) THEN DecLen(x.v) ELSE 4

\* length of the JSON text of a colour channel h/100, 0 <= h <= 100:
\* "0", "1", "0.d" or "0.dd"
ChannelLen(h) ==
    IF h % 100 = 0 THEN 1
    ELSE IF h % 10 = 0 THEN 3
    ELSE 4

\* length of the JSON text of a string without characters to escape
JStringLen(str) == Len(str) + 2

RECURSIVE SumLen(_, _)
SumLen(lens, j) == IF j > Len(lens) THEN 0 ELSE lens[j] + SumLen(lens, j + 1)

\* characters of JSON.stringify(gltf) that do not depend on the data
SkeletonLen == 917

\* JSON.stringify(gltf).length
JsonLength(gltf) ==
    SkeletonLen
    + 2 * JStringLen(gltf.name)
    + SumLen([j \in 1..4 |-> ChannelLen(gltf.baseColorFactor[j])], 1)
    + SumLen([j \in 1..4 |-> DecLen(gltf.accessors[j].count)], 1)
    + SumLen([j \in 1..3 |-> JNumLen(gltf.accessors[1].min[j])], 1)
    + SumLen([j \in 1..3 |-> JNumLen(gltf.accessors[1].max[j])], 1)
    + DecLen(gltf.accessors[4].componentType)
    + SumLen([j \in 1..3 |-> DecLen(gltf.bufferViews[j + 1].byteOffset)], 1)
    + SumLen([j \in 1..4 |-> DecLen(gltf.bufferViews[j].byteLength)], 1)
    + DecLen(gltf.bufferByteLength)

\* ---------------------------------------------------------------- createGlb
\* pad that adds a whole word to a length already aligned
padAlways(len) == 4 - (len % 4)

\* const pad = (len) => (4 - (len % 4)) % 4
pad(len) == (4 - (len % 4)) % 4

GlbMagic == 1179937895
GlbVersion == 2
ChunkJson == 1313821514
ChunkBin == 5130562
FloatType == 5126
ArrayBufferTarget == 34962
ElementArrayBufferTarget == 34963

\* BufferViewOffsets for a buffer laid out indices first, without padding
BufferViewOffsetsIndexFirst(posLen, normLen, uvLen, idxLen) ==
    << idxLen,
       idxLen + posLen,
       idxLen + posLen + normLen,
       0 >>

\* the byteOffset fields of the four buffer views
BufferViewOffsets(posLen, normLen, uvLen, idxLen) ==
    << 0,
       posLen + pad(posLen),
       posLen + pad(posLen) + normLen + pad(normLen),
       posLen + pad(posLen) + normLen + pad(normLen) + uvLen + pad(uvLen) >>

\* CopyOffsets without the advance of the offset after the normals
CopyOffsetsNoAdvance(posLen, normLen, uvLen, idxLen) ==
    LET o0 == 0
        o1 == o0 + posLen + pad(posLen)
        o2 == o1
        o3 == o2 + uvLen + pad(uvLen)
    IN <<o0, o1, o2, o3>>

\* the offsets at which the four segments are copied into binBuffer
CopyOffsets(posLen, normLen, uvLen, idxLen) ==
    LET o0 == 0
        o1 == o0 + posLen + pad(posLen)
        o2 == o1 + normLen + pad(normLen)
        o3 == o2 + uvLen + pad(uvLen)
    IN <<o0, o1, o2, o3>>

\* bufferLength
BufferLength(posLen, normLen, uvLen, idxLen) ==
    posLen + pad(posLen) + normLen + pad(normLen) + uvLen + pad(uvLen) + idxLen + pad(idxLen)

\* GlbLength without the padding of the JSON chunk
GlbLengthUnpadded(gltfBytesLength, gltfPadding, bufferLength) ==
    12 + 8 + gltfBytesLength + 8 + bufferLength

\* glbLength
GlbLength(gltfBytesLength, gltfPadding, bufferLength) ==
    12 + 8 + gltfBytesLength + gltfPadding + 8 + bufferLength

\* lines 658-736 of createGlb(data): the gltf object
Gltf(data) ==
    LET posLen == ByteLength(data.positions)
        normLen == ByteLength(data.normals)
        uvLen == ByteLength(data.uvs)
        idxLen == ByteLength(data.indices)
        off == BufferViewOffsets(posLen, normLen, uvLen, idxLen)
    IN [name |-> data.name,
        baseColorFactor |-> data.baseColor,
        accessors |->
          << [bufferView |-> 0, componentType |-> FloatType,
              count |-> Len(data.positions.elems) \div 3,
              min |-> data.bounds.min, max |-> data.bounds.max],
             [bufferView |-> 1, componentType |-> FloatType,
              count |-> Len(data.normals.elems) \div 3],
             [bufferView |-> 2, componentType |-> FloatType,
              count |-> Len(data.uvs.elems) \div 2],
             [bufferView |-> 3, componentType |-> ComponentType(data.indices.type),
              count |-> Len(data.indices.elems)] >>,
        bufferViews |->
          << [byteOffset |-> off[1], byteLength |-> posLen, target |-> ArrayBufferTarget],
             [byteOffset |-> off[2], byteLength |-> normLen, target |-> ArrayBufferTarget],
             [byteOffset |-> off[3], byteLength |-> uvLen, target |-> ArrayBufferTarget],
             [byteOffset |-> off[4], byteLength |-> idxLen, target |-> ElementArrayBufferTarget] >>,
        bufferByteLength |-> BufferLength(posLen, normLen, uvLen, idxLen)]

\* lines 738-773 of createGlb(data), gltf being the object built before: the
\* container, as the buffer's size, the 32-bit words written with their offsets,
\* the byte ranges copied, and the write cursor at the end
Glb(data, gltf) ==
    LET posLen == ByteLength(data.positions)
        normLen == ByteLength(data.normals)
        uvLen == ByteLength(data.uvs)
        idxLen == ByteLength(data.indices)
        bufferLength == BufferLength(posLen, normLen, uvLen, idxLen)
        gltfBytesLength == JsonLength(gltf)
        gltfPadding == (4 - (gltfBytesLength % 4)) % 4
        copies == CopyOffsets(posLen, normLen, uvLen, idxLen)
        glbLength == GlbLength(gltfBytesLength, gltfPadding, bufferLength)
        h0 == 0
        h1 == h0 + 4
        h2 == h1 + 4
        j0 == h2 + 4
        j1 == j0 + 4
        j2 == j1 + 4
        j3 == j2 + gltfBytesLength
        b0 == j3 + gltfPadding
        b1 == b0 + 4
        b2 == b1 + 4
    IN [byteLength |-> glbLength,
        words |-> << [at |-> h0, value |-> GlbMagic],
                     [at |-> h1, value |-> GlbVersion],
                     [at |-> h2, value |-> glbLength],
                     [at |-> j0, value |-> gltfBytesLength + gltfPadding],
                     [at |-> j1, value |-> ChunkJson],
                     [at |-> b0, value |-> bufferLength],
                     [at |-> b1, value |-> ChunkBin] >>,
        json |-> [at |-> j2, length |-> gltfBytesLength, padding |-> gltfPadding],
        bin |-> [at |-> b2, length |-> bufferLength, copies |-> copies],
        gltf |-> gltf,
        end |-> b2 + bufferLength]

\* ------------------------------------------------------------------- state
VARIABLES
    dir,              \* the models directory: entries [name, content], in readdir order
    outputDirExists,  \* fs.existsSync(outputDir)
    outFiles,         \* the output directory: file name -> [complete, glb]
    log,              \* the console lines written so far
    pc,               \* position in convertModels
    files,            \* the filtered list of file names
    fileIdx,          \* position of the for-of loop in files (1-based)
    fileName,         \* convertThreeJsJsonToGltf: fileName
    modelData,        \* convertThreeJsJsonToGltf: modelData
    positions, normalData, uvData, indices,
    vertexIndex,      \* next output index
    i,                \* read cursor in faces (0-based)
    baseColor,
    bounds,           \* minX..maxZ of the bounding-box loop, as [min, max]
    posJ,             \* the bounding-box loop's j (0-based)
    data,             \* the object convertThreeJsJsonToGltf returns
    gltf,             \* createGlb: the gltf object
    glb,              \* the buffer createGlb returns
    wRuns,            \* index-width run: (flag, count) runs decoded so far
    wCorners,         \* index-width run: vertexIndex
    wIndices,         \* index-width run: indices.length
    wType,            \* index-width run: componentType of accessor 3, 0 before
    wMax,             \* index-width run: the largest index pushed, -1 before
    wStored,          \* index-width run: that index as the index buffer holds it
    modelsDir,        \* server: the models directory, entries [name, created, data] in readdir order
    currentDesign,    \* server: let currentDesign
    now,              \* server: Date.now()
    inflight,         \* server: uploads whose file is being received
    trace             \* server: the requests answered so far, in order, with their answers

batchVars == <<dir, outputDirExists, outFiles, log, pc, files, fileIdx>>
callVars == <<fileName, modelData, positions, normalData, uvData, indices,
              vertexIndex, i, baseColor, bounds, posJ, data, gltf, glb>>
widthVars == <<wRuns, wCorners, wIndices, wType, wMax, wStored>>
serverVars == <<modelsDir, currentDesign, now, inflight, trace>>
vars == <<batchVars, callVars, widthVars, serverVars>>

\* ------------------------------------------------------------------ inputs
Vertices == <<0, 0, 0,  1, 0, 0,  1, 1, 0,  0, 1, 0,  -2, 3, 16777219>>
Normals == <<0, 0, 1,  1, 0, 0>>
UvChannel == <<0, 0,  1, 0,  1, 1>>

\* face records: flag, vertex indices, then the optional fields the flag declares
FaceTemplates ==
    { <<0, 0, 1, 2>>,
      <<1, 0, 1, 2, 3>>,
      <<0, 1, 2, 4>>,
      <<0, 0, 1, 5>>,
      <<42, 0, 2, 1,  0,  0, 1, 2,  0, 1, 0>>,
      <<33, 0, 1, 2, 3,  0, 1, 1, 7>>,
      <<255, 3, 2, 1, 0,  0,  0,  0, 1, 2, 0,  0,  1, 0, 1, 0,  0,  0, 0, 0, 0>> }

RECURSIVE Streams(_)
\* the concatenations of at most n face records
Streams(n) ==
    IF n = 0 THEN { <<>> }
    ELSE LET shorter == Streams(n - 1)
         IN shorter \cup { s \o t : s \in shorter, t \in FaceTemplates }

\* face streams: whole records, and streams cut short by up to MaxTrunc integers
FaceStreams ==
    { SubSeq(s, 1, Len(s) - t) : s \in Streams(MaxFaces), t \in 0..MaxTrunc }

NoColor == <<0, 0, 0>>
Mat(c) == [kind |-> "color", c |-> c]
MatNoColor == [kind |-> "nocolor", c |-> NoColor]
MatNull == [kind |-> "null", c |-> NoColor]

MaterialLists ==
    { <<>>,
      << Mat(<<100, 100, 100>>) >>,
      << Mat(<<80, 10, 10>>) >>,
      << Mat(<<50, 50, 50>>), MatNoColor, Mat(<<30, 60, 92>>) >>,
      << Mat(<<30, 34, 38>>) >>,
      << Mat(<<35, 30, 25>>), Mat(<<55, 50, 45>>) >>,
      << Mat(<<96, 93, 100>>), Mat(<<10, 15, 10>>), MatNull >> }

\* a document that leaves scale and uvs out, and one that has them
Doc(scale, uvs, faces, materials) ==
    [scale |-> scale, vertices |-> Vertices, normals |-> Normals, uvs |-> uvs,
     faces |-> faces, materials |-> materials]

NoDoc == Doc(0, <<>>, <<>>, <<>>)

GeometryDocs ==
    { Doc(0, <<>>, f, <<>>) : f \in FaceStreams }
    \cup { Doc(2, <<UvChannel>>, f, <<>>) : f \in FaceStreams }

ColourDocs == { Doc(1, <<UvChannel>>, <<0, 0, 1, 2>>, m) : m \in MaterialLists }

NameChair == <<"c","h","a","i","r",".","j","s">>
NameBlue == <<"b","l","u","e",".","j","s">>
NameWhiteoak == <<"w","h","i","t","e","o","a","k",".","j","s">>
NameBlueOak == <<"B","l","u","e","_","O","a","k",".","j","s">>
NameOakJson == <<"o","a","k",".","j","s","o","n",".","j","s">>
NameSmoke == <<"S","M","O","K","E",".","j","s">>
NameLamp == <<"l","a","m","p",".","j","s">>
NameSofa == <<"s","o","f","a",".","j","s">>
NameNotes == <<"n","o","t","e","s",".","t","x","t">>

ColourNames == {NameChair, NameBlue, NameWhiteoak, NameBlueOak, NameOakJson, NameSmoke}

File(name, kind, doc) == [name |-> name, content |-> [kind |-> kind, doc |-> doc]]

\* directories holding one file
SingleDirs ==
    { << File(NameChair, "doc", d) >> : d \in GeometryDocs }
    \cup { << File(n, "doc", d) >> : n \in ColourNames, d \in ColourDocs }

\* the files batches are made of: readable or not, parsable or not, convertible or not
BatchFiles ==
    { File(NameChair, "doc", Doc(2, <<UvChannel>>, <<0, 0, 1, 2, 1, 0, 1, 2, 3>>, <<>>)),
      File(NameBlue, "unreadable", NoDoc),
      File(NameWhiteoak, "badjson", NoDoc),
      File(NameSmoke, "null", NoDoc),
      File(NameLamp, "doc", Doc(1, <<>>, <<1, 0, 1>>, <<>>)),
      File(NameSofa, "doc", Doc(1, <<>>, <<0, 0, 1, 2>>, << MatNull >>)),
      File(NameNotes, "unreadable", NoDoc) }

RECURSIVE Dirs(_)
\* the directories of exactly n files of BatchFiles, in every readdir order
Dirs(n) ==
    IF n = 0 THEN { <<>> }
    ELSE { Append(d, f) : d \in Dirs(n - 1), f \in BatchFiles }

HasDistinctNames(d) ==
    \A a, b \in 1..Len(d) : a # b => d[a].name # d[b].name

BatchDirs ==
    { d \in UNION { Dirs(n) : n \in 2..MaxFiles } : HasDistinctNames(d) }

\* ----------------------------------------------------------- convertModels
NoData == [none |-> TRUE]
NoGltf == [none |-> TRUE]
NoGlb == [none |-> TRUE]
NoFile == <<>>

Line(k, file, msg) == [k |-> k, file |-> file, msg |-> msg]

\* the locals of one conversion, outside a conversion
CallIdle ==
    /\ fileName = NoFile
    /\ modelData = NoDoc
    /\ positions = <<>>
    /\ normalData = <<>>
    /\ uvData = <<>>
    /\ indices = <<>>
    /\ vertexIndex = 0
    /\ i = 0
    /\ baseColor = DefaultColor
    /\ bounds = InitialBounds
    /\ posJ = 0
    /\ data = NoData
    /\ gltf = NoGltf
    /\ glb = NoGlb

WidthIdle ==
    /\ wRuns = <<>>
    /\ wCorners = 0
    /\ wIndices = 0
    /\ wType = 0
    /\ wMax = -1
    /\ wStored = -1

\* let currentDesign = null
Null == [k |-> "null", items |-> 0]

ServerIdle ==
    /\ modelsDir = <<>>
    /\ currentDesign = Null
    /\ now = 0
    /\ inflight = {}
    /\ trace = <<>>

Init ==
    /\ dir \in SingleDirs \cup BatchDirs
    /\ outputDirExists \in BOOLEAN
    /\ outFiles = <<>>
    /\ log = <<>>
    /\ pc = "start"
    /\ files = <<>>
    /\ fileIdx = 0
    /\ CallIdle
    /\ WidthIdle
    /\ ServerIdle

\* files.filter(f => f.endsWith('.js')) over the names of the directory
JsFiles(d) ==
    LET IsJs(e) == EndsWith(e.name, DotJs)
        kept == SelectSeq(d, IsJs)
    IN [j \in 1..Len(kept) |-> kept[j].name]

\* the content of the directory's file of that name
ContentOf(d, name) ==
    (CHOOSE e \in { d[j] : j \in 1..Len(d) } : e.name = name).content

\* file.replace('.js', '.glb')
OutputName(file) == Replace(file, DotJs, DotGlb)

\* modelData.scale || 1
ScaleOf(doc) == IF doc.scale # 0 THEN doc.scale ELSE 1

\* modelData.uvs && modelData.uvs[0] ? modelData.uvs[0] : []
UvsOf(doc) == IF Len(doc.uvs) > 0 THEN doc.uvs[1] ELSE <<>>

\* lines 426-433: create the output directory, list and filter the models
Start ==
    /\ pc = "start"
    /\ outputDirExists' = TRUE
    /\ files' = JsFiles(dir)
    /\ log' = Append(log, Line("found", NoFile, ""))
    /\ fileIdx' = 1
    /\ pc' = "for"
    /\ UNCHANGED <<dir, outFiles, callVars, widthVars, serverVars>>

\* Catch with the try around the loop: the first error ends the batch
CatchAbort(lines, msg) ==
    /\ log' = lines \o << Line("error", files[fileIdx], msg) >>
    /\ fileIdx' = fileIdx
    /\ pc' = "done"
    /\ fileName' = NoFile
    /\ modelData' = NoDoc
    /\ positions' = <<>>
    /\ normalData' = <<>>
    /\ uvData' = <<>>
    /\ indices' = <<>>
    /\ vertexIndex' = 0
    /\ i' = 0
    /\ baseColor' = DefaultColor
    /\ bounds' = InitialBounds
    /\ posJ' = 0
    /\ data' = NoData
    /\ gltf' = NoGltf
    /\ glb' = NoGlb

\* Catch with the bounding box kept in variables that outlive the call
CatchSharedBounds(lines, msg) ==
    /\ log' = lines \o << Line("error", files[fileIdx], msg) >>
    /\ fileIdx' = fileIdx + 1
    /\ pc' = "for"
    /\ fileName' = NoFile
    /\ modelData' = NoDoc
    /\ positions' = <<>>
    /\ normalData' = <<>>
    /\ uvData' = <<>>
    /\ indices' = <<>>
    /\ vertexIndex' = 0
    /\ i' = 0
    /\ baseColor' = DefaultColor
    /\ bounds' = bounds
    /\ posJ' = 0
    /\ data' = NoData
    /\ gltf' = NoGltf
    /\ glb' = NoGlb

\* the catch block: log the error and go on with the next file
Catch(lines, msg) ==
    /\ log' = lines \o << Line("error", files[fileIdx], msg) >>
    /\ fileIdx' = fileIdx + 1
    /\ pc' = "for"
    /\ fileName' = NoFile
    /\ modelData' = NoDoc
    /\ positions' = <<>>
    /\ normalData' = <<>>
    /\ uvData' = <<>>
    /\ indices' = <<>>
    /\ vertexIndex' = 0
    /\ i' = 0
    /\ baseColor' = DefaultColor
    /\ bounds' = InitialBounds
    /\ posJ' = 0
    /\ data' = NoData
    /\ gltf' = NoGltf
    /\ glb' = NoGlb

\* lines 435-448 and 466-482: the next file of the loop is read and parsed, and
\* convertThreeJsJsonToGltf is entered
BeginFile ==
    /\ pc = "for"
    /\ fileIdx <= Len(files)
    /\ LET file == files[fileIdx]
           content == ContentOf(dir, file)
           lines == Append(log, Line("converting", file, ""))
       IN CASE content.kind = "unreadable" ->
                 Catch(lines, "read") /\ UNCHANGED <<dir, outputDirExists, outFiles, files>>
            [] content.kind = "badjson" ->
                 Catch(lines, "parse") /\ UNCHANGED <<dir, outputDirExists, outFiles, files>>
            [] content.kind = "null" ->
                 Catch(lines, "convert") /\ UNCHANGED <<dir, outputDirExists, outFiles, files>>
            [] content.kind = "doc" ->
                 /\ log' = lines
                 /\ fileName' = file
                 /\ modelData' = content.doc
                 /\ positions' = <<>>
                 /\ normalData' = <<>>
                 /\ uvData' = <<>>
                 /\ indices' = <<>>
                 /\ vertexIndex' = 0
                 /\ i' = 0
                 /\ pc' = "decode"
                 /\ UNCHANGED <<dir, outputDirExists, outFiles, files, fileIdx,
                                baseColor, bounds, posJ, data, gltf, glb>>
    /\ UNCHANGED <<widthVars, serverVars>>

\* lines 484-580: one iteration of the while loop over faces
DecodeFace ==
    /\ pc = "decode"
    /\ i < Len(modelData.faces)
    /\ LET rec == DecodeRecord(modelData.faces, i)
           n == rec.numVertices
           faceVertexIndices == [v \in 1..n |-> vertexIndex + v - 1]
       IN /\ i' = rec.next
          /\ positions' = positions \o
                FlatMap([v \in 1..n |-> CornerPosition(modelData.vertices,
                                            ScaleOf(modelData), rec.vertexIndices[v])], 1, n)
          /\ normalData' = normalData \o
                FlatMap([v \in 1..n |-> CornerNormal(modelData.normals, rec, v)], 1, n)
          /\ uvData' = uvData \o
                FlatMap([v \in 1..n |-> CornerUv(UvsOf(modelData), rec, v)], 1, n)
          /\ vertexIndex' = vertexIndex + n
          /\ indices' = indices \o TriangulateFace(rec.isQuad, faceVertexIndices)
    /\ UNCHANGED <<batchVars, fileName, modelData, baseColor, bounds, posJ, data, gltf, glb,
                   widthVars, serverVars>>

\* lines 583-624: the base colour, once the face loop has ended
ResolveColor ==
    /\ pc = "decode"
    /\ i >= Len(modelData.faces)
    /\ LET r == ResolveBaseColor(fileName, modelData.materials)
       IN IF r.threw
          THEN Catch(log, "convert") /\ UNCHANGED <<dir, outputDirExists, outFiles, files>>
          ELSE /\ baseColor' = r.color
               /\ pc' = "bounds"
               /\ UNCHANGED <<dir, outputDirExists, outFiles, log, files, fileIdx,
                              fileName, modelData, positions, normalData, uvData,
                              indices, vertexIndex, i, bounds, posJ, data, gltf, glb>>
    /\ UNCHANGED <<widthVars, serverVars>>

\* lines 635-642: one iteration of the bounding-box loop
BoundsStep ==
    /\ pc = "bounds"
    /\ posJ < Len(positions)
    /\ bounds' = BoundsIteration(bounds, positions, posJ)
    /\ posJ' = posJ + 3
    /\ UNCHANGED <<batchVars, fileName, modelData, positions, normalData, uvData,
                   indices, vertexIndex, i, baseColor, data, gltf, glb, widthVars, serverVars>>

\* lines 627-630 and 644-652: the typed arrays and the object returned
Result(fileName_, positions_, normalData_, uvData_, indices_, baseColor_, bounds_) ==
    [positions |-> Float32Array(positions_),
     normals |-> Float32ArrayOfInts(normalData_),
     uvs |-> Float32ArrayOfInts(uvData_),
     indices |-> IndexBuffer(positions_, indices_),
     baseColor |-> baseColor_,
     bounds |-> bounds_,
     name |-> Replace(fileName_, DotJs, <<>>)]

BuildResult ==
    /\ pc = "bounds"
    /\ posJ >= Len(positions)
    /\ data' = Result(fileName, positions, normalData, uvData, indices, baseColor, bounds)
    /\ pc' = "glb"
    /\ UNCHANGED <<dir, outputDirExists, outFiles, log, files, fileIdx, fileName,
                   modelData, positions, normalData, uvData, indices, vertexIndex, i,
                   baseColor, bounds, posJ, gltf, glb, widthVars, serverVars>>

\* line 451, createGlb entered: lines 658-736, the gltf object is built
CreateGltf ==
    /\ pc = "glb"
    /\ gltf' = Gltf(data)
    /\ pc' = "pack"
    /\ UNCHANGED <<dir, outputDirExists, outFiles, log, files, fileIdx, fileName,
                   modelData, positions, normalData, uvData, indices, vertexIndex, i,
                   baseColor, bounds, posJ, data, glb, widthVars, serverVars>>

\* lines 738-773: the JSON text, the binary buffer and the container
CreateGlb ==
    /\ pc = "pack"
    /\ glb' = Glb(data, gltf)
    /\ pc' = "write"
    /\ UNCHANGED <<dir, outputDirExists, outFiles, log, files, fileIdx, fileName,
                   modelData, positions, normalData, uvData, indices, vertexIndex, i,
                   baseColor, bounds, posJ, data, gltf, widthVars, serverVars>>

\* outFiles with the file of that name set to content
WithFile(fs, name, content) ==
    [n \in DOMAIN fs \cup {name} |-> IF n = name THEN content ELSE fs[n]]

\* lines 452-457: fs.writeFileSync(outputPath, glb).  It writes the whole buffer,
\* or throws having written nothing, or throws having written a part of it.
WriteFile ==
    /\ pc = "write"
    /\ LET outputName == OutputName(files[fileIdx])
       IN \/ /\ outFiles' = WithFile(outFiles, outputName, [complete |-> TRUE, glb |-> glb])
             /\ log' = Append(log, Line("ok", files[fileIdx], ""))
             /\ fileIdx' = fileIdx + 1
             /\ pc' = "for"
             /\ fileName' = NoFile
             /\ modelData' = NoDoc
             /\ positions' = <<>>
             /\ normalData' = <<>>
             /\ uvData' = <<>>
             /\ indices' = <<>>
             /\ vertexIndex' = 0
             /\ i' = 0
             /\ baseColor' = DefaultColor
             /\ bounds' = InitialBounds
             /\ posJ' = 0
             /\ data' = NoData
             /\ gltf' = NoGltf
             /\ glb' = NoGlb
          \/ /\ outFiles' = outFiles
             /\ Catch(log, "write")
          \/ /\ outFiles' = WithFile(outFiles, outputName, [complete |-> FALSE, glb |-> NoGlb])
             /\ Catch(log, "write")
    /\ UNCHANGED <<dir, outputDirExists, files, widthVars, serverVars>>

\* line 460: the loop has ended
Complete ==
    /\ pc = "for"
    /\ fileIdx > Len(files)
    /\ log' = Append(log, Line("complete", NoFile, ""))
    /\ pc' = "done"
    /\ UNCHANGED <<dir, outputDirExists, outFiles, files, fileIdx, callVars, widthVars, serverVars>>

Next ==
    \/ Start
    \/ BeginFile
    \/ DecodeFace
    \/ ResolveColor
    \/ BoundsStep
    \/ BuildResult
    \/ CreateGltf
    \/ CreateGlb
    \/ WriteFile
    \/ Complete

Spec == Init /\ [][Next]_vars

\* convertModels runs to its end: no step of it waits on anything
FairSpec == Spec /\ WF_vars(Next)

\* ------------------------------------------------ index width, by lengths
\* The choice between 16-bit and 32-bit indices reads only the lengths of the
\* expanded arrays, and the limit stands at 65536 elements. This run keeps the
\* lengths alone: WDecodeRun is count iterations of the while loop over records
\* with the same flag, WChooseWidth is lines 630 and 724.
RunFlags == {0, 1, 42}
RunCounts == {1, 2, 5461, 10922, 10923, 16384, 21844, 21845}

FlagVertices(flag) == IF Bit(flag, 1) THEN 4 ELSE 3

FlagIndices(flag) == Len(TriangulateFace(Bit(flag, 1), <<0, 1, 2, 3>>))

MaxOf(S) == CHOOSE x \in S : \A y \in S : y <= x

\* the indices pushed for the last of count faces with this flag, vertexIndex
\* being corners before the first of them: the largest indices of the run
LastPushed(flag, count, corners) ==
    LET n == FlagVertices(flag)
        c == corners + (count - 1) * n
        pushed == TriangulateFace(Bit(flag, 1), [v \in 1..n |-> c + v - 1])
    IN { pushed[j] : j \in 1..Len(pushed) }

\* the element the index buffer holds for the index value
StoredIndex(numCorners, numIndices, value) ==
    IF IndexArrayType(numCorners, numIndices) = "Uint16Array"
    THEN Uint16Array(<<value>>).elems[1]
    ELSE Uint32Array(<<value>>).elems[1]

InitWidth ==
    /\ dir = <<>>
    /\ outputDirExists = TRUE
    /\ outFiles = <<>>
    /\ log = <<>>
    /\ pc = "width"
    /\ files = <<>>
    /\ fileIdx = 0
    /\ CallIdle
    /\ WidthIdle
    /\ ServerIdle

WDecodeRun ==
    /\ pc = "width"
    /\ wType = 0
    /\ Len(wRuns) < MaxRuns
    /\ \E flag \in RunFlags, count \in RunCounts :
          /\ wRuns' = Append(wRuns, <<flag, count>>)
          /\ wCorners' = wCorners + count * FlagVertices(flag)
          /\ wIndices' = wIndices + count * FlagIndices(flag)
          /\ wMax' = MaxOf({wMax} \cup LastPushed(flag, count, wCorners))
    /\ UNCHANGED <<batchVars, callVars, wType, wStored, serverVars>>

WChooseWidth ==
    /\ pc = "width"
    /\ wType = 0
    /\ wType' = ComponentType(IndexArrayType(wCorners, wIndices))
    /\ wStored' = IF wMax < 0 THEN wMax ELSE StoredIndex(wCorners, wIndices, wMax)
    /\ UNCHANGED <<batchVars, callVars, wRuns, wCorners, wIndices, wMax, serverVars>>

NextWidth ==
    \/ WDecodeRun
    \/ WChooseWidth

SpecWidth == InitWidth /\ [][NextWidth]_vars

\* ------------------------------------------------------------------ server
\* The AR server: the models directory, currentDesign, and the handlers of
\* /upload-model, /save-design, /current-design and /cleanup. A handler runs to
\* its end without interleaving; an upload is received by multer before its
\* handler runs, and other requests are served meanwhile.

\* files.slice(10)
KeepCount == 10

\* Date.now() when the server starts
StartTime == 20

DotGltf == <<".", "g", "l", "t", "f">>
DotJson == <<".", "j", "s", "o", "n">>
RoomDesignPrefix == <<"r","o","o","m","-","d","e","s","i","g","n","-">>
DesignPrefix == <<"d","e","s","i","g","n","-">>

DigitChars == <<"0", "1", "2", "3", "4", "5", "6", "7", "8", "9">>

RECURSIVE Decimal(_)
\* the decimal text of n, as a template literal prints it
Decimal(n) ==
    IF n < 10 THEN << DigitChars[n + 1] >>
    ELSE Decimal(n \div 10) \o << DigitChars[(n % 10) + 1] >>

\* `room-design-${timestamp}.glb`
UploadFilename(timestamp) == RoomDesignPrefix \o Decimal(timestamp) \o DotGlb

\* `design-${timestamp}.json`
DesignFilename(timestamp) == DesignPrefix \o Decimal(timestamp) \o DotJson

RECURSIVE LastDot(_, _)
\* the position of the last "." of s at or before position j, 0 when there is none
LastDot(s, j) ==
    IF j = 0 THEN 0
    ELSE IF s[j] = "." THEN j
    ELSE LastDot(s, j - 1)

\* path.extname of a name without directories: from the last dot on; nothing
\* when there is no dot, when the last dot is the first character, or when the
\* name is ".."
ExtName(s) ==
    LET p == LastDot(s, Len(s))
    IN IF p <= 1 THEN <<>>
       ELSE IF s = <<".", ".">> THEN <<>>
       ELSE SubSeq(s, p, Len(s))

\* fileFilter: the upload is accepted
FileFilter(originalname) ==
    LET ext == ToLowerCase(ExtName(originalname))
    IN ext = DotGlb \/ ext = DotGltf

\* the names uploads arrive under
OriginalNames ==
    { <<"r","o","o","m",".","g","l","b">>,
      <<"a",".","G","L","T","F">>,
      <<"a",".","p","n","g">>,
      <<".", ".">> }

\* the bodies express.json() hands to /save-design: JSON objects
Design(n) == [k |-> "object", items |-> n]

\* req.body of a request that carries no JSON body, where the body parser
\* leaves it unset
NoBody == [k |-> "undefined", items |-> 0]

Bodies == { Design(0), Design(1), NoBody }

\* a value in a condition: null and undefined are falsy, an object is truthy
Truthy(v) == v.k # "null" /\ v.k # "undefined"

\* directory entries
NoContent == [kind |-> "other", id |-> 0, design |-> Null, complete |-> TRUE]
Entry(name, created, content) == [name |-> name, created |-> created, data |-> content]
UploadData(id, complete) ==
    [kind |-> "upload", id |-> id, design |-> Null, complete |-> complete]
DesignData(design, complete) ==
    [kind |-> "design", id |-> 0, design |-> design, complete |-> complete]

\* the models a directory holds when the server starts, listed in an order
\* that is not the order of their creation; with ties, some share a birthtime
OldCreated(k, ties) == IF ties THEN ((k * 7) % 13) \div 2 ELSE (k * 7) % 13

OldModels(n, ties) ==
    [k \in 1..n |-> Entry(UploadFilename(100 + k), OldCreated(k, ties), UploadData(0, TRUE))]

OldDir(n, ties) ==
    << Entry(NameNotes, 0, NoContent) >>
    \o OldModels(n, ties)
    \o << Entry(DesignFilename(5), 0, DesignData(Design(1), TRUE)),
          Entry(<<"a",".","G","L","B">>, 0, NoContent) >>

ServerDirs ==
    { OldDir(n, ties) : n \in {0, KeepCount - 1, KeepCount, KeepCount + 1, MaxModels},
                        ties \in BOOLEAN }

\* a request answered: the status and the fields of res.status(...).json(...);
\* for /save-design, design is the body that was posted
Response(route, status, design, deleted, filename) ==
    [route |-> route, status |-> status, design |-> design, deleted |-> deleted,
     filename |-> filename]

InitServer ==
    /\ dir = <<>>
    /\ outputDirExists = TRUE
    /\ outFiles = <<>>
    /\ log = <<>>
    /\ pc = "server"
    /\ files = <<>>
    /\ fileIdx = 0
    /\ CallIdle
    /\ WidthIdle
    /\ modelsDir \in ServerDirs
    /\ currentDesign = Null
    /\ now = StartTime
    /\ inflight = {}
    /\ trace = <<>>

\* the requests begun so far
Started == Len(trace) + Cardinality(inflight)

\* a file opened for writing: created when it is not there, emptied when it is
OpenForWrite(d, name, t, content) ==
    IF \E j \in 1..Len(d) : d[j].name = name
    THEN [j \in 1..Len(d) |-> IF d[j].name = name THEN [d[j] EXCEPT !.data = content] ELSE d[j]]
    ELSE Append(d, Entry(name, t, content))

\* the directory without the files of these names
Without(d, names) ==
    LET Kept(e) == e.name \notin names
    IN SelectSeq(d, Kept)

\* time passes
Tick ==
    /\ pc = "server"
    /\ now < StartTime + MaxTicks
    /\ now' = now + 1
    /\ UNCHANGED <<batchVars, callVars, widthVars, modelsDir, currentDesign, inflight, trace>>

\* lines 180-206 and 212-216: a request to /upload-model arrives. Without a
\* file part the handler answers 400; a file the filter refuses is an error
\* passed to express (500); an accepted file is named and opened for writing.
UploadBegin ==
    /\ pc = "server"
    /\ Started < MaxRequests
    /\ \/ /\ trace' = Append(trace, Response("upload-model", 400, Null, 0, NoFile))
          /\ UNCHANGED <<modelsDir, inflight>>
       \/ \E originalname \in OriginalNames :
            IF FileFilter(originalname)
            THEN LET timestamp == now
                     filename == UploadFilename(timestamp)
                     id == Started + 1
                 IN /\ modelsDir' = OpenForWrite(modelsDir, filename, now, UploadData(id, FALSE))
                    /\ inflight' = inflight \cup { [id |-> id, filename |-> filename] }
                    /\ trace' = trace
            ELSE /\ trace' = Append(trace, Response("upload-model", 500, Null, 0, NoFile))
                 /\ UNCHANGED <<modelsDir, inflight>>
    /\ UNCHANGED <<batchVars, callVars, widthVars, currentDesign, now>>

\* lines 212-234: the file has been received, the handler answers
UploadEnd ==
    /\ pc = "server"
    /\ \E u \in inflight :
          /\ inflight' = inflight \ {u}
          /\ modelsDir' = [j \in 1..Len(modelsDir) |->
                             IF modelsDir[j].name = u.filename
                             THEN [modelsDir[j] EXCEPT !.data = UploadData(u.id, TRUE)]
                             ELSE modelsDir[j]]
          /\ trace' = Append(trace, Response("upload-model", 200, Null, 0, u.filename))
    /\ UNCHANGED <<batchVars, callVars, widthVars, currentDesign, now>>

\* the upload breaks off: multer removes the file and passes the error on
UploadAbort ==
    /\ pc = "server"
    /\ \E u \in inflight :
          /\ inflight' = inflight \ {u}
          /\ modelsDir' = Without(modelsDir, {u.filename})
          /\ trace' = Append(trace, Response("upload-model", 500, Null, 0, NoFile))
    /\ UNCHANGED <<batchVars, callVars, widthVars, currentDesign, now>>

\* lines 242-266: POST /save-design. fs.writeFileSync writes the file, or
\* throws having written nothing, or throws having written a part of it.
SaveDesign ==
    /\ pc = "server"
    /\ Started < MaxRequests
    /\ \E body \in Bodies :
          LET timestamp == now
              filename == DesignFilename(timestamp)
          IN /\ currentDesign' = body
             \* JSON.stringify(undefined, null, 2) is undefined, which
             \* fs.writeFileSync refuses with a TypeError before it opens the file
             /\ \/ /\ body # NoBody
                   /\ modelsDir' = OpenForWrite(modelsDir, filename, now, DesignData(body, TRUE))
                   /\ trace' = Append(trace, Response("save-design", 200, body, 0, filename))
                \/ /\ modelsDir' = modelsDir
                   /\ trace' = Append(trace, Response("save-design", 500, body, 0, NoFile))
                \/ /\ body # NoBody
                   /\ modelsDir' = OpenForWrite(modelsDir, filename, now, DesignData(body, FALSE))
                   /\ trace' = Append(trace, Response("save-design", 500, body, 0, NoFile))
    /\ UNCHANGED <<batchVars, callVars, widthVars, now, inflight>>

\* lines 269-275: GET /current-design
GetCurrentDesign ==
    /\ pc = "server"
    /\ Started < MaxRequests
    /\ IF Truthy(currentDesign)
       THEN trace' = Append(trace, Response("current-design", 200, currentDesign, 0, NoFile))
       ELSE trace' = Append(trace, Response("current-design", 404, Null, 0, NoFile))
    /\ UNCHANGED <<batchVars, callVars, widthVars, modelsDir, currentDesign, now, inflight>>

\* InsertByCreated for a comparator a.created - b.created: oldest first
InsertByCreatedAscending(sorted, e) ==
    LET before == { j \in 1..Len(sorted) : sorted[j].created <= e.created }
        p == Cardinality(before)
    IN SubSeq(sorted, 1, p) \o <<e>> \o SubSeq(sorted, p + 1, Len(sorted))

\* e put into a list sorted by (a, b) => b.created - a.created: after every
\* entry that is not older than e, the sort being stable
InsertByCreated(sorted, e) ==
    LET before == { j \in 1..Len(sorted) : sorted[j].created >= e.created }
        p == Cardinality(before)
    IN SubSeq(sorted, 1, p) \o <<e>> \o SubSeq(sorted, p + 1, Len(sorted))

RECURSIVE SortByCreated(_, _)
\* .sort((a, b) => b.created - a.created) of the first j entries of list
SortByCreated(list, j) ==
    IF j = 0 THEN <<>>
    ELSE InsertByCreated(SortByCreated(list, j - 1), list[j])

\* .filter(f => f.endsWith('.glb'))
GlbFiles(d) ==
    LET IsGlb(e) == EndsWith(e.name, DotGlb)
    IN SelectSeq(d, IsGlb)

\* files.slice(10)
ToDelete(d) ==
    LET sorted == SortByCreated(GlbFiles(d), Len(GlbFiles(d)))
    IN SubSeq(sorted, KeepCount + 1, Len(sorted))

\* lines 307-329: POST /cleanup. fs.statSync or one of the fs.unlinkSync calls
\* may throw: the files unlinked before it stay unlinked and the answer is 500.
Cleanup ==
    /\ pc = "server"
    /\ Started < MaxRequests
    /\ LET toDelete == ToDelete(modelsDir)
       IN \/ /\ modelsDir' = Without(modelsDir, { toDelete[j].name : j \in 1..Len(toDelete) })
             /\ trace' = Append(trace, Response("cleanup", 200, Null, Len(toDelete), NoFile))
          \/ \E failAt \in 1..Len(toDelete) :
               /\ modelsDir' = Without(modelsDir, { toDelete[j].name : j \in 1..(failAt - 1) })
               /\ trace' = Append(trace, Response("cleanup", 500, Null, 0, NoFile))
          \/ /\ modelsDir' = modelsDir
             /\ trace' = Append(trace, Response("cleanup", 500, Null, 0, NoFile))
    /\ UNCHANGED <<batchVars, callVars, widthVars, currentDesign, now, inflight>>

NextServer ==
    \/ Tick
    \/ UploadBegin
    \/ UploadEnd
    \/ UploadAbort
    \/ SaveDesign
    \/ GetCurrentDesign
    \/ Cleanup

SpecServer == InitServer /\ [][NextServer]_vars

\* ------------------------------------------------------------------ claims
\* the containers in the state: the one just built, and those written whole
Containers ==
    (IF pc = "write" THEN {glb} ELSE {})
    \cup { outFiles[n].glb : n \in { m \in DOMAIN outFiles : outFiles[m].complete } }

\* C1: the total-length word at bytes 8..11 of every container equals the size
\* of the buffer returned, which is 12 + 8 + (JSON bytes + JSON padding) + 8 +
\* (packed buffer length), and the writes end exactly at that size.
C1_HeaderLength ==
    \A g \in Containers :
        /\ g.words[3].at = 8
        /\ g.words[3].value = g.byteLength
        /\ g.byteLength = 12 + 8 + (g.json.length + g.json.padding) + 8 + g.gltf.bufferByteLength
        /\ g.end = g.byteLength
        /\ (g.json.length + g.json.padding) % 4 = 0

C1_Witness ==
    /\ pc = "write"
    /\ glb.json.padding > 0
    /\ glb.bin.length > 0
    /\ glb.words[3].value = glb.byteLength

\* a step of the face loop: in such a state no other step is possible
FaceStep == pc = "decode" /\ i < Len(modelData.faces) /\ i' # i

\* the position the source gives the k-th corner (1-based) of the record at i
SourceCorner(k) ==
    CornerPosition(modelData.vertices, ScaleOf(modelData), FaceAt(modelData.faces, i + k))

\* the position emitted under output index c
EmittedAt(buf, c) == SubSeq(buf, 3 * c + 1, 3 * c + 3)

\* C2: a face whose flag has the quad bit set appends exactly the 6 indices
\* c0,c1,c2,c0,c2,c3, where c0..c3 are the output indices its four corners
\* received, in source corner order.
C2_QuadIndices ==
    [][ (FaceStep /\ Bit(modelData.faces[i + 1], 1)) =>
          LET c == Len(positions) \div 3
          IN /\ indices' = indices \o <<c, c + 1, c + 2, c, c + 2, c + 3>>
             /\ Len(positions') = Len(positions) + 12
             /\ \A k \in 1..4 : EmittedAt(positions', c + k - 1) = SourceCorner(k) ]_vars

C2_Witness ==
    /\ pc = "decode"
    /\ Len(modelData.faces) >= 5
    /\ Bit(modelData.faces[1], 1)
    /\ i = 5
    /\ indices = <<0, 1, 2, 0, 2, 3>>

\* C3: a face whose flag has the quad bit clear appends exactly 3 indices, the
\* output indices of its three corners in the order of the face stream.
C3_TriangleIndices ==
    [][ (FaceStep /\ ~Bit(modelData.faces[i + 1], 1)) =>
          LET c == Len(positions) \div 3
          IN /\ indices' = indices \o <<c, c + 1, c + 2>>
             /\ Len(positions') = Len(positions) + 9
             /\ \A k \in 1..3 : EmittedAt(positions', c + k - 1) = SourceCorner(k) ]_vars

C3_Witness ==
    /\ pc = "decode"
    /\ Len(modelData.faces) >= 8
    /\ ~Bit(modelData.faces[1], 1)
    /\ ~Bit(modelData.faces[5], 1)
    /\ i = 8
    /\ indices = <<0, 1, 2, 3, 4, 5>>

CornerWeight(flag) == IF flag % 2 = 1 THEN 4 ELSE 3

RECURSIVE CornerTotal(_, _)
\* the corners of the faces of the runs from j on: 3 a triangle, 4 a quad
CornerTotal(runs, j) ==
    IF j > Len(runs) THEN 0
    ELSE runs[j][2] * CornerWeight(runs[j][1]) + CornerTotal(runs, j + 1)

\* C4: the index buffer is 16-bit (5123) exactly when the number of expanded
\* corners is below 65536, and 32-bit (5125) otherwise, for every mix of
\* triangle and quad faces.
C4_WidthByCorners ==
    wType # 0 =>
        (wType = 5123 <=> CornerTotal(wRuns, 1) < 65536)

\* the keys of the colour table the lower-cased file name contains
KeysIn(name) ==
    { j \in 1..Len(colorMap) : Includes(ToLowerCase(name), colorMap[j].key) }

\* a material whose diffuse colour is taken: not all channels above 0.9, and
\* not both neighbouring channel differences below 0.05
Taken(mat) ==
    /\ mat.kind = "color"
    /\ ~(mat.c[1] > 90 /\ mat.c[2] > 90 /\ mat.c[3] > 90)
    /\ ~(WithinTolerance(mat.c[1], mat.c[2]) /\ WithinTolerance(mat.c[2], mat.c[3]))

TakenIn(materials) == { j \in 1..Len(materials) : Taken(materials[j]) }

Least(S) == CHOOSE x \in S : \A y \in S : x <= y

\* C5, as claimed: when the file name contains a keyword of the colour table,
\* the resolved colour is a colour of the table, whatever the materials are.
C5_KeywordWins ==
    (pc = "bounds" /\ KeysIn(fileName) # {}) =>
        \E j \in 1..Len(colorMap) : baseColor = colorMap[j].color

\* C5, amended: when the file name contains a keyword of the colour table, the
\* resolved colour is the diffuse colour of the first material that is neither
\* near-white nor near-gray if there is one, and otherwise the colour of the
\* first keyword, in table order, that the name contains.
C5_KeywordUnlessMaterial ==
    (pc = "bounds" /\ KeysIn(fileName) # {}) =>
        LET taken == TakenIn(modelData.materials)
        IN IF taken # {}
           THEN LET c == modelData.materials[Least(taken)].c
                IN baseColor = <<c[1], c[2], c[3], 100>>
           ELSE baseColor = colorMap[Least(KeysIn(fileName))].color

C5_Witness ==
    /\ pc = "bounds"
    /\ KeysIn(fileName) # {}
    /\ TakenIn(modelData.materials) # {}
    /\ baseColor = <<80, 10, 10, 100>>

KeyWhiteoak == <<"w","h","i","t","e","o","a","k">>

\* C6: for a file name containing "whiteoak", and no material that overrides
\* the colour, the resolved colour is the whiteoak constant (0.8, 0.7, 0.5, 1).
C6_Whiteoak ==
    (/\ pc = "bounds"
     /\ Includes(ToLowerCase(fileName), KeyWhiteoak)
     /\ TakenIn(modelData.materials) = {}) =>
        baseColor = <<80, 70, 50, 100>>

RECURSIVE WellFormed(_, _)
\* the face stream from cursor j on consists of whole records
WellFormed(faces, j) ==
    IF j = Len(faces) THEN TRUE
    ELSE IF j > Len(faces) THEN FALSE
    ELSE WellFormed(faces, DecodeRecord(faces, j).next)

\* the directory's documents whose face stream ends in the middle of a record
TruncatedFiles ==
    { j \in 1..Len(dir) :
        /\ EndsWith(dir[j].name, DotJs)
        /\ dir[j].content.kind = "doc"
        /\ ~WellFormed(dir[j].content.doc.faces, 0) }

\* C7: a file whose face stream ends in the middle of a record gets no output
\* file, and its conversion is not reported as a success.
C7_TruncatedRejected ==
    \A j \in TruncatedFiles :
        /\ OutputName(dir[j].name) \notin DOMAIN outFiles
        /\ \A l \in 1..Len(log) : ~(log[l].k = "ok" /\ log[l].file = dir[j].name)

\* the values emitted on axis a (1..3)
AxisValues(elems, a) ==
    { elems[j].v : j \in { k \in 1..Len(elems) : (k - 1) % 3 = a - 1 } }

\* C8: for a document with at least one face, bounds.min is the smallest and
\* bounds.max the largest emitted coordinate of each axis. It is stated here for
\* the documents whose emitted positions are all numbers, the case that favours
\* it most: a NaN position makes the bounds NaN.
C8_BoundsExact ==
    (/\ pc = "glb"
     /\ Len(data.positions.elems) > 0
     /\ \A j \in 1..Len(data.positions.elems) : IsNum(data.positions.elems[j])) =>
        \A a \in 1..3 :
            LET vals == AxisValues(data.positions.elems, a)
            IN /\ IsNum(data.bounds.min[a])
               /\ IsNum(data.bounds.max[a])
               /\ data.bounds.min[a].v \in vals
               /\ data.bounds.max[a].v \in vals
               /\ \A x \in vals : data.bounds.min[a].v <= x /\ x <= data.bounds.max[a].v

\* C9: the byteOffset of every buffer view is a multiple of 4.
C9_OffsetsAligned ==
    \A g \in Containers :
        \A j \in 1..4 : g.gltf.bufferViews[j].byteOffset % 4 = 0

C9_Witness ==
    /\ pc = "write"
    /\ data.indices.type = "Uint16Array"
    /\ Len(data.indices.elems) % 2 = 1
    /\ glb.gltf.bufferViews[4].byteLength % 4 = 2
    /\ glb.gltf.bufferViews[4].byteOffset > 0

\* the log lines of kind k about file f
LinesOf(k, f) == { l \in 1..Len(log) : log[l].k = k /\ log[l].file = f }

EligibleNames == { dir[j].name : j \in { k \in 1..Len(dir) : EndsWith(dir[k].name, DotJs) } }

\* C10: the batch ends, and when it has ended every eligible file was attempted
\* exactly once and has exactly one outcome, no other file was attempted, and
\* every file that did not fail has its output written.
C10_BatchComplete ==
    /\ <>(pc = "done")
    /\ [](pc = "done" =>
            /\ \A f \in EligibleNames :
                  /\ Cardinality(LinesOf("converting", f)) = 1
                  /\ Cardinality(LinesOf("ok", f)) + Cardinality(LinesOf("error", f)) = 1
                  /\ LinesOf("ok", f) # {} =>
                        /\ OutputName(f) \in DOMAIN outFiles
                        /\ outFiles[OutputName(f)].complete
            /\ \A l \in 1..Len(log) :
                  log[l].k = "converting" => log[l].file \in EligibleNames)

C10_Witness ==
    /\ pc = "done"
    /\ \E a, b \in 1..Len(log) : a < b /\ log[a].k = "error" /\ log[b].k = "ok"

\* C11: at every point of a conversion, a write that failed part-way included,
\* a file under the final output name either does not exist or holds the
\* complete container.
C11_FinalNameComplete ==
    \A n \in DOMAIN outFiles : outFiles[n].complete

RECURSIVE Expanded(_, _, _)
\* the arrays the face loop builds for a document, from cursor j on
Expanded(doc, j, acc) ==
    IF j >= Len(doc.faces) THEN acc
    ELSE LET rec == DecodeRecord(doc.faces, j)
             n == rec.numVertices
             c == acc.vertexIndex
         IN Expanded(doc, rec.next,
              [positions |-> acc.positions \o
                  FlatMap([v \in 1..n |-> CornerPosition(doc.vertices, ScaleOf(doc),
                                              rec.vertexIndices[v])], 1, n),
               normalData |-> acc.normalData \o
                  FlatMap([v \in 1..n |-> CornerNormal(doc.normals, rec, v)], 1, n),
               uvData |-> acc.uvData \o
                  FlatMap([v \in 1..n |-> CornerUv(UvsOf(doc), rec, v)], 1, n),
               indices |-> acc.indices \o
                  TriangulateFace(rec.isQuad, [v \in 1..n |-> c + v - 1]),
               vertexIndex |-> c + n])

RECURSIVE BoundsFrom(_, _, _)
\* the bounding box of a list of positions, from element j (0-based) on
BoundsFrom(b, list, j) ==
    IF j >= Len(list) THEN b
    ELSE BoundsFrom(BoundsIteration(b, list, j), list, j + 3)

\* the container of a document under a file name, computed from these two alone
ConversionOf(name, doc) ==
    LET e == Expanded(doc, 0, [positions |-> <<>>, normalData |-> <<>>, uvData |-> <<>>,
                               indices |-> <<>>, vertexIndex |-> 0])
        d == Result(name, e.positions, e.normalData, e.uvData, e.indices,
                    ResolveBaseColor(name, doc.materials).color,
                    BoundsFrom(InitialBounds, e.positions, 0))
    IN Glb(d, Gltf(d))

\* C12: the container produced for a file depends only on that file's document
\* and name: whatever was converted before it in the batch, and whether that
\* succeeded or failed, the container built and the container written are the
\* ones the document and the name determine.
C12_SameContainer ==
    /\ pc = "write" => glb = ConversionOf(fileName, modelData)
    /\ \A j \in 1..Len(dir) :
          LET out == OutputName(dir[j].name)
          IN (/\ dir[j].content.kind = "doc"
              /\ out \in DOMAIN outFiles
              /\ outFiles[out].complete) =>
                 outFiles[out].glb = ConversionOf(dir[j].name, dir[j].content.doc)

C12_Witness ==
    /\ pc = "write"
    /\ fileIdx = 2
    /\ \E n \in DOMAIN outFiles : outFiles[n].complete /\ outFiles[n].glb # glb
    /\ glb = ConversionOf(fileName, modelData)

\* the documents of the directory that have no face and no null material
EmptyFiles ==
    { dir[j].name : j \in { k \in 1..Len(dir) :
        /\ dir[k].content.kind = "doc"
        /\ Len(dir[k].content.doc.faces) = 0
        /\ \A m \in 1..Len(dir[k].content.doc.materials) :
              dir[k].content.doc.materials[m].kind # "null" } }

\* C13: a document with zero faces converts without error to a container whose
\* four buffer views have byteLength 0, whose packed buffer has length 0 and
\* whose four accessors have count 0.
C13_EmptyContainer ==
    /\ \A l \in 1..Len(log) :
          (log[l].k = "error" /\ log[l].msg = "convert") => log[l].file \notin EmptyFiles
    /\ (pc = "write" /\ Len(modelData.faces) = 0) =>
          /\ \A j \in 1..4 : glb.gltf.bufferViews[j].byteLength = 0
          /\ \A j \in 1..4 : glb.gltf.accessors[j].count = 0
          /\ glb.gltf.bufferByteLength = 0
          /\ glb.bin.length = 0
          /\ glb.words[6].value = 0

C13_Witness ==
    /\ pc = "write"
    /\ fileName \in EmptyFiles
    /\ Len(modelData.faces) = 0
    /\ glb.gltf.bufferByteLength = 0
    /\ glb.byteLength > 0

\* the number of integers the flags of a record imply
RecordLength(flag) ==
    LET n == IF flag % 2 = 1 THEN 4 ELSE 3
        hasMaterial == (flag \div 2) % 2
        hasFaceUv == (flag \div 4) % 2
        hasFaceVertexUv == (flag \div 8) % 2
        hasFaceNormal == (flag \div 16) % 2
        hasFaceVertexNormal == (flag \div 32) % 2
        hasFaceColor == (flag \div 64) % 2
        hasFaceVertexColor == (flag \div 128) % 2
    IN 1 + n + hasMaterial + hasFaceUv + n * hasFaceVertexUv + hasFaceNormal
         + n * hasFaceVertexNormal + hasFaceColor + n * hasFaceVertexColor

RECURSIVE RecordStarts(_, _)
\* the positions of the flag integers of the records from position j on, and
\* the position after the last record
RecordStarts(faces, j) ==
    IF j >= Len(faces) THEN {j}
    ELSE {j} \cup RecordStarts(faces, j + RecordLength(faces[j + 1]))

\* C16: for every face record fully contained in the stream the decode loop
\* advances the read cursor by exactly 1 + n + hasMaterial + hasFaceUv +
\* n*hasFaceVertexUv + hasFaceNormal + n*hasFaceVertexNormal + hasFaceColor +
\* n*hasFaceVertexColor integers, so that in a stream of whole records the
\* cursor always stands on a record's flag integer or at the end of the stream.
C16_CursorAdvance ==
    /\ [][ (FaceStep /\ i + RecordLength(modelData.faces[i + 1]) <= Len(modelData.faces)) =>
              i' = i + RecordLength(modelData.faces[i + 1]) ]_vars
    /\ []( (pc = "decode" /\ Len(modelData.faces) \in RecordStarts(modelData.faces, 0)) =>
              (i \in RecordStarts(modelData.faces, 0) /\ i <= Len(modelData.faces)) )

C16_Witness ==
    /\ pc = "decode"
    /\ Len(modelData.faces) > 21
    /\ modelData.faces[1] = 255
    /\ i = 21
    /\ Len(modelData.faces) \in RecordStarts(modelData.faces, 0)

RECURSIVE FacesBefore(_, _, _)
\* the corners and the triangles of the records that start before cursor upto:
\* 3 corners and 1 triangle a triangle face, 4 corners and 2 triangles a quad
FacesBefore(faces, j, upto) ==
    IF j >= upto \/ j >= Len(faces) THEN [corners |-> 0, triangles |-> 0]
    ELSE LET rest == FacesBefore(faces, j + RecordLength(faces[j + 1]), upto)
             quad == faces[j + 1] % 2 = 1
         IN [corners |-> rest.corners + (IF quad THEN 4 ELSE 3),
             triangles |-> rest.triangles + (IF quad THEN 2 ELSE 1)]

\* C17: while and after a face stream is expanded, the numbers of emitted
\* positions, normals and UVs are the same, one of each for every corner (3 or
\* 4 a face), and the number of indices is 3 times the number of emitted
\* triangles (one a triangle face, two a quad face).
C17_EqualCounts ==
    /\ pc \in {"decode", "bounds"} =>
          LET done == FacesBefore(modelData.faces, 0, i)
          IN /\ Len(positions) = 3 * done.corners
             /\ Len(normalData) = 3 * done.corners
             /\ Len(uvData) = 2 * done.corners
             /\ vertexIndex = done.corners
             /\ Len(indices) = 3 * done.triangles
    /\ pc \in {"glb", "pack", "write"} =>
          LET all == FacesBefore(modelData.faces, 0, Len(modelData.faces))
          IN /\ Len(data.positions.elems) = 3 * all.corners
             /\ Len(data.normals.elems) = 3 * all.corners
             /\ Len(data.uvs.elems) = 2 * all.corners
             /\ Len(data.indices.elems) = 3 * all.triangles
    /\ pc \in {"pack", "write"} =>
          /\ gltf.accessors[1].count = gltf.accessors[2].count
          /\ gltf.accessors[2].count = gltf.accessors[3].count
          /\ gltf.accessors[4].count =
                3 * FacesBefore(modelData.faces, 0, Len(modelData.faces)).triangles

C17_Witness ==
    /\ pc = "bounds"
    /\ vertexIndex = 7
    /\ Len(positions) = 21
    /\ Len(normalData) = 21
    /\ Len(uvData) = 14
    /\ Len(indices) = 9

\* the smallest multiple of 4 that is not below len
PaddedLength(len) == ((len + 3) \div 4) * 4

\* C18: each buffer view's byteOffset equals the offset at which createGlb
\* copies that segment into the binary buffer; the segments lie in the order
\* positions, normals, uvs, indices without overlapping; and the declared
\* buffer byteLength is the sum of the four padded segment lengths.
C18_OffsetsMatchCopies ==
    \A g \in Containers :
        LET view == g.gltf.bufferViews
            copies == g.bin.copies
        IN /\ \A j \in 1..4 : view[j].byteOffset = copies[j]
           /\ copies[1] = 0
           /\ \A j \in 1..3 : copies[j] + view[j].byteLength <= copies[j + 1]
           /\ copies[4] + view[4].byteLength <= g.gltf.bufferByteLength
           /\ g.gltf.bufferByteLength =
                 PaddedLength(view[1].byteLength) + PaddedLength(view[2].byteLength)
                 + PaddedLength(view[3].byteLength) + PaddedLength(view[4].byteLength)
           /\ g.bin.length = g.gltf.bufferByteLength

C18_Witness ==
    /\ pc = "write"
    /\ \A j \in 1..4 : glb.gltf.bufferViews[j].byteLength > 0
    /\ \A j \in 1..4 : glb.bin.copies[j] = glb.gltf.bufferViews[j].byteOffset
    /\ glb.bin.copies[3] > glb.bin.copies[2]
    /\ glb.gltf.bufferByteLength > glb.bin.copies[4] + glb.gltf.bufferViews[4].byteLength

\* a material the claim of C19 takes: it has a diffuse colour, not all three
\* channels above 0.9, and the largest difference over the three channel pairs
\* is not below 0.05
TakenByAllPairs(mat) ==
    /\ mat.kind = "color"
    /\ ~(mat.c[1] > 90 /\ mat.c[2] > 90 /\ mat.c[3] > 90)
    /\ ~(/\ WithinTolerance(mat.c[1], mat.c[2])
          /\ WithinTolerance(mat.c[2], mat.c[3])
          /\ WithinTolerance(mat.c[1], mat.c[3]))

\* C19: when no filename keyword matches, the resolved colour is the diffuse
\* colour (RGB verbatim, alpha 1.0) of the first material, in document order,
\* that is not near-white and not near-gray, near-gray meaning that the
\* largest difference over all three channel pairs, first against third
\* included, is below 0.05.
C19_FirstMaterialAllPairs ==
    (pc = "bounds" /\ KeysIn(fileName) = {}) =>
        LET taken == { j \in 1..Len(modelData.materials) :
                         TakenByAllPairs(modelData.materials[j]) }
        IN taken # {} =>
             LET c == modelData.materials[Least(taken)].c
             IN baseColor = <<c[1], c[2], c[3], 100>>

\* t repeated n times
Repeated(t, n) == FlatMap([v \in 1..n |-> t], 1, n)

\* C20: every corner of a face whose flag lacks the per-vertex-normal bit gets
\* the normal (0,1,0), and every corner of a face whose flag lacks the
\* per-vertex-UV bit gets the UV (0,0); and the flag-0 triangle over the
\* vertices (0,0,0), (1,0,0), (1,1,0) at scale 1 yields 3 positions, one
\* triangle, these defaults and the bounds min (0,0,0), max (1,1,0).
C20_Defaults ==
    /\ [][ FaceStep =>
              LET flag == modelData.faces[i + 1]
                  n == IF flag % 2 = 1 THEN 4 ELSE 3
              IN /\ (flag \div 32) % 2 = 0 =>
                       normalData' = normalData \o Repeated(<<0, 1, 0>>, n)
                 /\ (flag \div 8) % 2 = 0 =>
                       uvData' = uvData \o Repeated(<<0, 0>>, n) ]_vars
    /\ []( (/\ pc = "glb"
             /\ modelData.faces = <<0, 0, 1, 2>>
             /\ SubSeq(modelData.vertices, 1, 9) = <<0, 0, 0, 1, 0, 0, 1, 1, 0>>
             /\ ScaleOf(modelData) = 1) =>
              /\ data.positions.elems =
                    [j \in 1..9 |-> Num(<<0, 0, 0, 1, 0, 0, 1, 1, 0>>[j])]
              /\ data.indices.elems = <<0, 1, 2>>
              /\ data.normals.elems = [j \in 1..9 |-> Num(Repeated(<<0, 1, 0>>, 3)[j])]
              /\ data.uvs.elems = [j \in 1..6 |-> Num(0)]
              /\ data.bounds.min = <<Num(0), Num(0), Num(0)>>
              /\ data.bounds.max = <<Num(1), Num(1), Num(0)>> )

C20_Witness ==
    /\ pc = "glb"
    /\ modelData.faces = <<0, 0, 1, 2>>
    /\ ScaleOf(modelData) = 1
    /\ Len(modelData.uvs) > 0
    /\ data.normals.elems[2] = Num(1)
    /\ data.bounds.max = <<Num(1), Num(1), Num(0)>>

\* the step in which POST /cleanup answers with success
CleanupDone ==
    /\ Len(trace') = Len(trace) + 1
    /\ trace'[Len(trace')].route = "cleanup"
    /\ trace'[Len(trace')].status = 200

EntriesOf(d) == { d[j] : j \in 1..Len(d) }

\* the entries whose name ends in .glb
ModelsOf(d) ==
    { e \in EntriesOf(d) :
        Len(e.name) >= 4 /\ SubSeq(e.name, Len(e.name) - 3, Len(e.name)) = <<".", "g", "l", "b">> }

\* C14: after POST /cleanup has completed successfully at most 10 .glb files
\* remain in the models directory, they are the 10 most recently created of
\* those present when the request ran (no removed model is newer than a
\* remaining one), and no file that is not a .glb model is removed.
C14_CleanupKeepsNewest ==
    [][ CleanupDone =>
          LET before == ModelsOf(modelsDir)
              after == ModelsOf(modelsDir')
              removed == before \ after
          IN /\ Cardinality(after) <= 10
             /\ after \subseteq before
             /\ Cardinality(after) = (IF Cardinality(before) < 10 THEN Cardinality(before) ELSE 10)
             /\ \A kept \in after, gone \in removed : kept.created >= gone.created
             /\ (EntriesOf(modelsDir) \ before) \subseteq EntriesOf(modelsDir')
             /\ trace'[Len(trace')].deleted = Cardinality(removed) ]_vars

C14_Witness ==
    /\ Len(trace) >= 1
    /\ trace[Len(trace)].route = "cleanup"
    /\ trace[Len(trace)].status = 200
    /\ trace[Len(trace)].deleted >= 2
    /\ Cardinality(ModelsOf(modelsDir)) = 10
    /\ \E e \in ModelsOf(modelsDir) : e.created = now
    /\ \E e \in EntriesOf(modelsDir) : e.name = NameNotes

\* C15: in any sequence of POST /save-design and GET /current-design requests,
\* GET /current-design returns the body of the most recent POST /save-design,
\* and it answers 404 exactly when no design has been saved since the server
\* started, a design being saved when its POST /save-design succeeded.
C15_LatestDesign ==
    \A k \in 1..Len(trace) :
        trace[k].route = "current-design" =>
            LET posts == { j \in 1..(k - 1) : trace[j].route = "save-design" }
                saved == { j \in posts : trace[j].status = 200 }
            IN /\ trace[k].status = 404 <=> saved = {}
               /\ trace[k].status # 404 =>
                     /\ trace[k].status = 200
                     /\ posts # {}
                     /\ trace[k].design = trace[CHOOSE j \in posts : \A m \in posts : m <= j].design

\* the uploads accepted so far: the requests to /upload-model answered with success
AcceptedUploads ==
    { k \in 1..Len(trace) : trace[k].route = "upload-model" /\ trace[k].status = 200 }

\* C21: any two uploads accepted by POST /upload-model, those handled
\* concurrently or within the same millisecond included, are stored under
\* distinct file names, so that no upload overwrites an earlier uploaded model.
C21_DistinctUploadNames ==
    \A a, b \in AcceptedUploads :
        a # b => trace[a].filename # trace[b].filename

\* C22: after a face stream is expanded, every value in the index buffer is
\* smaller than the number of emitted corners, and every value is held by the
\* index buffer of the chosen width as it is: no index is truncated when a
\* 16-bit index buffer is chosen.
C22_IndicesFit ==
    (wType # 0 /\ wIndices > 0) =>
        /\ 0 <= wMax
        /\ wMax < wCorners
        /\ wStored = wMax
        /\ wType = 5123 => wMax < 65536

C22_Witness ==
    /\ wType = 5123
    /\ wIndices = 65535
    /\ wMax = 65534
    /\ wStored = 65534

\* the step in which POST /save-design answers 500
SaveFailed ==
    /\ Len(trace') = Len(trace) + 1
    /\ trace'[Len(trace')].route = "save-design"
    /\ trace'[Len(trace')].status = 500

\* C23: a POST /save-design that fails, answering 500 because the design file
\* cannot be written, leaves the server's current design unchanged, so that a
\* later GET /current-design still returns the last successfully saved design.
C23_FailedSaveKeepsDesign ==
    [][ SaveFailed => currentDesign' = currentDesign ]_vars

====
